---------------------------- MODULE Spec2Model ----------------------------
(***************************************************************************)
(* A model of classipy/main.py (Python 2): find_class, class_values,       *)
(* breaks, split and the Classifier wrapper.                               *)
(*                                                                         *)
(* Every function of the module is pure, so each specification draws the   *)
(* arguments of one call in its initial states (variable `call`) and has   *)
(* one action per function that stores what the call returns or raises     *)
(* (variable `ret`).  The Classifier object lives in the variable `self`.  *)
(***************************************************************************)
EXTENDS Integers, Sequences, FiniteSets, TLC

VARIABLES call, ret, self

vars == <<call, ret, self>>

(***************************************************************************)
(* NUMBERS OF find_class / split / breaks                                  *)
(*                                                                         *)
(* A float is modelled in fixed point: an integer number of units.  The    *)
(* code compares eval(bytes(x)), and in Python 2 bytes is str and          *)
(* str(float) prints 12 significant digits ('%.12g'), so the comparison    *)
(* sees x rounded to 12 digits.  StrGrid is the spacing, in units, of the  *)
(* floats that print exactly; the values two units away from a grid point  *)
(* are the floats that need more than 12 digits (0.30000000000000004 or    *)
(* 3.9999999999999), and print like the grid point.  The numbers of the    *)
(* calls are even, so that the midpoint of two of them is a whole number   *)
(* of units.  str(float('inf')) is 'inf', and eval('inf') raises           *)
(* NameError.                                                              *)
(***************************************************************************)
StrGrid == 8

Inf == 1000

\* eval(bytes(x)) for a finite x: x rounded to the nearest grid point.
StrEval(x) == ((x + (StrGrid \div 2)) \div StrGrid) * StrGrid

\* Whether eval(bytes(x)) returns at all.
CanEval(x) == x # Inf

\* bounds of the model
MaxBreaks == 4

MaxItems == 3

\* The breakpoints and values the calls are drawn from: 16, 32, 48 print
\* exactly, and so do 24 and 40, the midpoints of classes; 14, 18, 30, 34 and
\* 50 are two units away from a grid point.
BreakVals == {16, 30, 32, 48}

FindVals == {14, 16, 18, 24, 30, 32, 34, 40, 48, 50, Inf}

IsNonDecreasing(s) == \A i \in 1..(Len(s) - 1) : s[i] <= s[i + 1]

NonDecreasingSeqs(S, lo, hi) ==
    UNION { { s \in [1..n -> S] : IsNonDecreasing(s) } : n \in lo..hi }

(***************************************************************************)
(* What a call returns: Python's None, a raised exception, or a value.     *)
(***************************************************************************)
Pending == [kind |-> "pending"]

NoObject == [kind |-> "no object"]

NoneResult == [kind |-> "None", classnum |-> 0, range |-> <<>>]

Raised(exc) == [kind |-> exc, classnum |-> 0, range |-> <<>>]

ClassInfo(n, lo, hi) == [kind |-> "class", classnum |-> n, range |-> <<lo, hi>>]

(***************************************************************************)
(* find_class(value, breaks), main.py 93-111.  FindFrom(value, breaks, i)  *)
(* is the loop from the pair (breaks[i], breaks[i+1]) on, classnum = i.    *)
(***************************************************************************)
RECURSIVE FindFrom(_, _, _)
FindFrom(value, breaks, i) ==
    IF i >= Len(breaks) THEN NoneResult
    ELSE IF ~CanEval(breaks[i]) \/ ~CanEval(value) THEN Raised("NameError")
    ELSE IF StrEval(breaks[i]) <= StrEval(value)
            /\ ~CanEval(breaks[i + 1]) THEN Raised("NameError")
    ELSE IF StrEval(breaks[i]) <= StrEval(value)
            /\ StrEval(value) <= StrEval(breaks[i + 1])
         THEN ClassInfo(i, breaks[i], breaks[i + 1])
    ELSE FindFrom(value, breaks, i + 1)

find_class(value, breaks) == FindFrom(value, breaks, 1)

(***************************************************************************)
(* Specification of find_class calls.                                      *)
(***************************************************************************)
FindCalls ==
    { [fn |-> "find_class", value |-> v, breaks |-> b] :
        v \in FindVals, b \in NonDecreasingSeqs(BreakVals, 2, MaxBreaks) }

InitFind == call \in FindCalls /\ ret = Pending /\ self = NoObject

FindClass ==
    /\ call.fn = "find_class"
    /\ ret = Pending
    /\ ret' = find_class(call.value, call.breaks)
    /\ UNCHANGED <<call, self>>

NextFind == FindClass

SpecFind == InitFind /\ [][NextFind]_vars


\* What the contract of find_class says of the pair (b[i], b[i+1]) and v.
InClass(v, b, i) ==
    \/ b[i] <= v /\ v < b[i + 1]
    \/ i = Len(b) - 1 /\ b[i] <= v /\ v <= b[i + 1]
    \/ b[i] = v /\ v = b[i + 1]

FirstClass(v, b) ==
    CHOOSE i \in 1..(Len(b) - 1) :
        InClass(v, b, i) /\ \A j \in 1..(i - 1) : ~InClass(v, b, j)

FindDone == call.fn = "find_class" /\ ret # Pending

\* C1: for a finite value that prints exactly and non-decreasing breaks,
\* find_class returns the 1-based index and the bounds of the first pair with
\* low <= v < high, or (final pair only) low <= v <= high, or low == v == high;
\* so a value equal to an interior breakpoint goes to the class whose low
\* bound it is.
C1_FirstEnclosingPair ==
    (/\ FindDone
     /\ CanEval(call.value) /\ StrEval(call.value) = call.value
     /\ \A i \in 1..Len(call.breaks) : StrEval(call.breaks[i]) = call.breaks[i])
    => IF \E i \in 1..(Len(call.breaks) - 1) : InClass(call.value, call.breaks, i)
       THEN LET k == FirstClass(call.value, call.breaks)
            IN  ret = ClassInfo(k, call.breaks[k], call.breaks[k + 1])
       ELSE ret = NoneResult

\* C2: find_class returns a class index in [1, len(breaks)-1] with a pair of
\* adjacent breakpoints when breaks[0] <= v <= breaks[-1], and None (never an
\* error) when v < breaks[0] or v > breaks[-1].
C2_ClassInRangeElseMiss ==
    FindDone
    => IF call.breaks[1] <= call.value /\ call.value <= call.breaks[Len(call.breaks)]
       THEN /\ ret.kind = "class"
            /\ ret.classnum \in 1..(Len(call.breaks) - 1)
            /\ ret.range = <<call.breaks[ret.classnum], call.breaks[ret.classnum + 1]>>
       ELSE ret = NoneResult


(***************************************************************************)
(* split(items, breaks, key, exclude, minval, maxval), main.py 218-324,    *)
(* with custom breakpoints.  An item is [id, val]: id is its position in   *)
(* the input and val what key(item) gives, a number or (NotANumber) a      *)
(* value float() rejects.  exclude is the set of excluded values (empty    *)
(* for None); minval and maxval are <<>> for None and <<x>> for x.         *)
(***************************************************************************)
NotANumber == -1

ItemVals == {NotANumber, 8, 16, 30, 32, 64, Inf}

\* The custom breakpoint sequences of the split and Classifier calls: strictly
\* increasing ones, ones with duplicate breakpoints (degenerate classes) and
\* one with a breakpoint that does not print exactly.
SplitBreaks ==
    { <<16, 32>>, <<16, 48>>, <<32, 32>>, <<16, 32, 48>>, <<16, 16, 32>>,
      <<16, 32, 32>>, <<16, 30, 32>>, <<16, 32, 32, 48>>, <<16, 32, 48, 48>> }

\* exclude / minval / maxval of the calls
SplitFilters ==
    { [exclude |-> {}, minval |-> <<>>, maxval |-> <<>>],
      [exclude |-> {32}, minval |-> <<>>, maxval |-> <<>>],
      [exclude |-> {}, minval |-> <<16>>, maxval |-> <<>>],
      [exclude |-> {}, minval |-> <<>>, maxval |-> <<32>>],
      [exclude |-> {32}, minval |-> <<16>>, maxval |-> <<64>>] }

\* forcenumber(val) is not None (main.py 248-253)
IsNumber(val) == val # NotANumber

\* the generator filters of main.py 261-266
PassesFilters(item, exclude, minval, maxval) ==
    /\ IsNumber(item.val)
    /\ item.val \notin exclude
    /\ (minval # <<>> => item.val >= minval[1])
    /\ (maxval # <<>> => item.val <= maxval[1])

\* One step of the stable ascending sort: `item` goes after every element
\* that is not greater.
RECURSIVE InsertSorted(_, _)
InsertSorted(sorted, item) ==
    IF sorted = <<>> THEN <<item>>
    ELSE IF sorted[Len(sorted)].val <= item.val THEN Append(sorted, item)
    ELSE Append(InsertSorted(SubSeq(sorted, 1, Len(sorted) - 1), item),
                sorted[Len(sorted)])

NotSorted(items) == items

\* sorted(items, key=keywrap) (main.py 267)
RECURSIVE SortedByVal(_)
SortedByVal(items) ==
    IF items = <<>> THEN <<>>
    ELSE InsertSorted(SortedByVal(SubSeq(items, 1, Len(items) - 1)),
                      items[Len(items)])

\* main.py 261-267: filter, then sort
Prepare(items, exclude, minval, maxval) ==
    SortedByVal(SelectSeq(items,
                          LAMBDA it : PassesFilters(it, exclude, minval, maxval)))

\* The nested find_class of split (main.py 307-320), from pair i on.  The
\* code returns the pair only; classnum records the pair's position i+1 of
\* the loop.
RECURSIVE SplitFindFrom(_, _, _)
SplitFindFrom(val, breaks, i) ==
    IF i >= Len(breaks) THEN NoneResult
    ELSE IF ~CanEval(val) \/ ~CanEval(breaks[i]) \/ ~CanEval(breaks[i + 1])
         THEN Raised("NameError")
    ELSE IF StrEval(val) < StrEval(breaks[i]) THEN NoneResult
    ELSE IF StrEval(breaks[i]) <= StrEval(val) /\ StrEval(val) < StrEval(breaks[i + 1])
         THEN ClassInfo(i, breaks[i], breaks[i + 1])
    ELSE IF StrEval(breaks[i]) = StrEval(val) /\ StrEval(val) = StrEval(breaks[i + 1])
         THEN ClassInfo(i, breaks[i], breaks[i + 1])
    ELSE IF i = Len(breaks) - 1 /\ StrEval(val) <= StrEval(breaks[i + 1])
         THEN ClassInfo(i, breaks[i], breaks[i + 1])
    ELSE SplitFindFrom(val, breaks, i + 1)

split_find_class(item, breaks) == SplitFindFrom(item.val, breaks, 1)

\* The key itertools.groupby compares: the pair, or None.
GroupKey(info) == [kind |-> info.kind, range |-> info.range]

\* itertools.groupby(items, key=find_class) consumed by the loop of main.py
\* 322-324, from item i on.  cur is the key of the group being collected,
\* members its items so far, out the buckets yielded so far.  A key that
\* raises ends the generator: the group being collected is never yielded.
RECURSIVE GroupFrom(_, _, _, _, _, _)
GroupFrom(items, breaks, i, cur, members, out) ==
    LET flush == IF members # <<>> /\ cur.kind = "class"
                 THEN Append(out, [range |-> cur.range, members |-> members])
                 ELSE out
    IN  IF i > Len(items) THEN [raised |-> FALSE, groups |-> flush]
        ELSE LET info == split_find_class(items[i], breaks)
             IN  IF info.kind = "NameError" THEN [raised |-> TRUE, groups |-> out]
                 ELSE IF members # <<>> /\ GroupKey(info) = cur
                      THEN GroupFrom(items, breaks, i + 1, cur,
                                     Append(members, items[i]), out)
                 ELSE GroupFrom(items, breaks, i + 1, GroupKey(info),
                                <<items[i]>>, flush)

\* With fewer than two breakpoints the next(breaks_gen) of main.py 280-281
\* raises StopIteration inside the generator, which in Python 2 ends it.
split(items, breaks, exclude, minval, maxval) ==
    IF Len(breaks) < 2 THEN [raised |-> FALSE, groups |-> <<>>]
    ELSE
    GroupFrom(Prepare(items, exclude, minval, maxval), breaks, 1,
              GroupKey(NoneResult), <<>>, <<>>)

(***************************************************************************)
(* Specification of split calls.                                           *)
(***************************************************************************)
ItemLists ==
    UNION { { [i \in 1..n |-> [id |-> i, val |-> f[i]]] : f \in [1..n -> ItemVals] } :
            n \in 0..MaxItems }

SplitCalls ==
    { [fn |-> "split", items |-> its, breaks |-> b,
       exclude |-> flt.exclude, minval |-> flt.minval, maxval |-> flt.maxval] :
        its \in ItemLists, b \in SplitBreaks, flt \in SplitFilters }

InitSplit == call \in SplitCalls /\ ret = Pending /\ self = NoObject

Split ==
    /\ call.fn = "split"
    /\ ret = Pending
    /\ ret' = split(call.items, call.breaks, call.exclude, call.minval, call.maxval)
    /\ UNCHANGED <<call, self>>

NextSplit == Split

SpecSplit == InitSplit /\ [][NextSplit]_vars


SplitDone == call.fn = "split" /\ ret # Pending

\* The (bucket, position) places at which `item` occurs in the output.
Places(groups, item) ==
    { <<g, j>> \in (1..Len(groups)) \X (1..MaxItems + 1) :
        j <= Len(groups[g].members) /\ groups[g].members[j] = item }

RECURSIVE SumSizes(_)
SumSizes(groups) ==
    IF groups = <<>> THEN 0
    ELSE Len(groups[Len(groups)].members)
         + SumSizes(SubSeq(groups, 1, Len(groups) - 1))

Excluded(c) ==
    { i \in 1..Len(c.items) :
        ~PassesFilters(c.items[i], c.exclude, c.minval, c.maxval) }

PrintsExactly(x) == CanEval(x) /\ StrEval(x) = x

\* C3: in a split call whose numbers all print exactly, every item that
\* coerces to a float, is not in exclude and lies in [minval, maxval] appears
\* in exactly one output group and every other item in none, so that the sum
\* of the group sizes plus the number of filtered items is len(items).
C3_EveryItemInExactlyOneGroup ==
    (/\ SplitDone
     /\ \A i \in 1..Len(call.items) :
           IsNumber(call.items[i].val) => PrintsExactly(call.items[i].val)
     /\ \A i \in 1..Len(call.breaks) : PrintsExactly(call.breaks[i]))
    => /\ \A i \in 1..Len(call.items) :
            Cardinality(Places(ret.groups, call.items[i]))
              = IF PassesFilters(call.items[i], call.exclude, call.minval, call.maxval)
                THEN 1 ELSE 0
       /\ SumSizes(ret.groups) + Cardinality(Excluded(call)) = Len(call.items)

\* C4: every bucket of split is keyed by a pair of adjacent breakpoints
\* (b[i], b[i+1]) and every item in it has b[i] <= v < b[i+1], or
\* b[i] <= v <= b[i+1] in the final pair, or b[i] == v == b[i+1].
C4_ItemsLieInTheirBucket ==
    SplitDone
    => \A g \in 1..Len(ret.groups) :
          \E i \in 1..(Len(call.breaks) - 1) :
             /\ ret.groups[g].range = <<call.breaks[i], call.breaks[i + 1]>>
             /\ \A j \in 1..Len(ret.groups[g].members) :
                   InClass(ret.groups[g].members[j].val, call.breaks, i)

\* C5: the buckets of split come in ascending class order, no class interval
\* is yielded in two buckets, the items of a bucket are in ascending value
\* order, and items of equal value keep their order from the input.
C5_BucketsOrderedAndStable ==
    SplitDone
    => /\ \A g, h \in 1..Len(ret.groups) :
            g < h => /\ ret.groups[g].range # ret.groups[h].range
                     /\ ret.groups[g].range[1] <= ret.groups[h].range[1]
                     /\ ret.groups[g].range[2] <= ret.groups[h].range[2]
       /\ \A g \in 1..Len(ret.groups) :
            LET m == ret.groups[g].members
            IN  \A j, k \in 1..Len(m) :
                   j < k => /\ m[j].val <= m[k].val
                            /\ (m[j].val = m[k].val => m[j].id < m[k].id)

\* Two buckets, one of them with two items of equal value, from an input that
\* was not in value order.
C5_Witness ==
    /\ SplitDone
    /\ Len(ret.groups) >= 2
    /\ \E g \in 1..Len(ret.groups) :
          /\ Len(ret.groups[g].members) >= 2
          /\ ret.groups[g].members[1].val = ret.groups[g].members[2].val
    /\ \E i \in 1..(Len(call.items) - 1) : call.items[i].val > call.items[i + 1].val


(***************************************************************************)
(* NUMBERS OF class_values                                                 *)
(*                                                                         *)
(* class_values computes in Python floats (IEEE 754 doubles): a 53-bit     *)
(* significand, every operation rounded to nearest, ties to even.  A       *)
(* double x >= 0 is modelled exactly as [int, frac]: its integer part and  *)
(* the bits of its binary fraction, without trailing zeros.                *)
(***************************************************************************)
MantissaBits == 53

FromInt(n) == [int |-> n, frac |-> <<>>]

\* the number of bits of n >= 0
BitLen(n) == CHOOSE b \in 0..31 : 2^b > n /\ (b = 0 \/ 2^(b - 1) <= n)

Ones(bits) == { i \in 1..Len(bits) : bits[i] = 1 }

Last(S) == CHOOSE i \in S : \A j \in S : j <= i

First(S) == CHOOSE i \in S : \A j \in S : i <= j

StripZeros(bits) ==
    IF Ones(bits) = {} THEN <<>> ELSE SubSeq(bits, 1, Last(Ones(bits)))

LeadingZeros(bits) ==
    IF Ones(bits) = {} THEN Len(bits) ELSE First(Ones(bits)) - 1

\* The number of fraction bits a double with this integer part and these
\* leading fraction bits can hold.
KeepLen(int, frac) ==
    IF int > 0 THEN MantissaBits - BitLen(int)
    ELSE LeadingZeros(frac) + MantissaBits

\* bits * m + cin in the last place, exactly: [carry, bits].  The sequence is
\* halved, the low half first, its carry into the high half.
RECURSIVE MulAdd(_, _, _)
MulAdd(bits, m, cin) ==
    IF bits = <<>> THEN [carry |-> cin, bits |-> <<>>]
    ELSE IF Len(bits) = 1
         THEN [carry |-> (bits[1] * m + cin) \div 2,
               bits |-> <<(bits[1] * m + cin) % 2>>]
    ELSE LET h  == Len(bits) \div 2
             lo == MulAdd(SubSeq(bits, h + 1, Len(bits)), m, cin)
         IN  CASE lo.carry >= 0 ->
                  LET hi == MulAdd(SubSeq(bits, 1, h), m, lo.carry)
                  IN  [carry |-> hi.carry, bits |-> hi.bits \o lo.bits]

\* Rounding of the exact value int + 0.frac to a double: to nearest, ties to
\* even.
RoundFloat(int, frac) ==
    LET a == KeepLen(int, frac)
    IN  IF Len(frac) <= a THEN [int |-> int, frac |-> StripZeros(frac)]
        ELSE LET kept    == SubSeq(frac, 1, a)
                 sticky  == \E j \in (a + 2)..Len(frac) : frac[j] = 1
                 lastodd == IF a = 0 THEN int % 2 = 1 ELSE kept[a] = 1
                 up      == frac[a + 1] = 1 /\ (sticky \/ lastodd)
                 inc     == MulAdd(kept, 1, 1)
             IN  IF up THEN [int |-> int + inc.carry, frac |-> StripZeros(inc.bits)]
                 ELSE [int |-> int, frac |-> StripZeros(kept)]

\* float * int, for m >= 0
FMulInt(x, m) ==
    LET p == MulAdd(x.frac, m, 0)
    IN  RoundFloat(x.int * m + p.carry, p.bits)

\* float + int
FAddInt(x, j) == RoundFloat(x.int + j, x.frac)

\* float - int, for j <= x (exact: the difference has no more bits than x)
FSubInt(x, j) == [int |-> x.int - j, frac |-> x.frac]

\* 1 - 0.bits, for bits that end in a 1: every bit but the last one flips
Complement(bits) ==
    [i \in 1..Len(bits) |-> IF i = Len(bits) THEN 1 ELSE 1 - bits[i]]

\* int - float, for y <= j
IntSubF(j, y) ==
    IF y.frac = <<>> THEN FromInt(j - y.int)
    ELSE RoundFloat(j - y.int - 1, Complement(y.frac))

\* n fraction bits of a long division by d: r is the remainder so far, rest
\* the dividend's fraction bits not yet brought down.  [bits, r], the first
\* half of the bits first, its remainder into the second half; the bits end
\* where the division comes out even.
RECURSIVE DivBits(_, _, _, _)
DivBits(r, rest, d, n) ==
    IF n = 0 \/ (r = 0 /\ rest = <<>>) THEN [bits |-> <<>>, r |-> r]
    ELSE IF n = 1
         THEN LET r2 == 2 * r + (IF rest = <<>> THEN 0 ELSE rest[1])
              IN  [bits |-> <<IF r2 >= d THEN 1 ELSE 0>>,
                   r |-> IF r2 >= d THEN r2 - d ELSE r2]
    ELSE LET h  == n \div 2
             hi == DivBits(r, rest, d, h)
         IN  CASE hi.r >= 0 ->
                  LET lo == DivBits(hi.r, SubSeq(rest, h + 1, Len(rest)), d, n - h)
                  IN  [bits |-> hi.bits \o lo.bits, r |-> lo.r]

\* float / float(d), for an int d > 0: enough quotient bits for a full
\* significand, and one more 1 bit when a remainder is left, for the rounding
FDivInt(x, d) ==
    LET n == Len(x.frac) + BitLen(d) + MantissaBits + 1
        q == DivBits(x.int % d, x.frac, d, n)
    IN  RoundFloat(x.int \div d,
                   IF q.r = 0 THEN q.bits ELSE Append(q.bits, 1))

\* math.floor, math.ceil and int() of a float >= 0
Floor(x) == x.int

Ceil(x) == IF x.frac = <<>> THEN x.int ELSE x.int + 1

(***************************************************************************)
(* class_values(classes, valuestops), main.py 113-165.  A value stop is a  *)
(* number (iter FALSE, num) or a sequence of numbers (iter TRUE, tup); a   *)
(* class value is the same with floats for the numbers.  Value stops are   *)
(* non-negative integers.                                                  *)
(***************************************************************************)
Scalar(n) == [iter |-> FALSE, num |-> n, tup |-> <<>>]

Tuple(t) == [iter |-> TRUE, num |-> 0, tup |-> t]

\* the value stop itself, as class_values returns it for classes <= 1
StopValue(stop) ==
    [iter |-> stop.iter, num |-> FromInt(stop.num),
     tup |-> [j \in 1..Len(stop.tup) |-> FromInt(stop.tup[j])]]

\* _lerp (main.py 131-136) for a float val and int bounds
lerp(val, oldfrom, oldto, newfrom, newto) ==
    LET oldrange == oldto - oldfrom
        relval   == FDivInt(FSubInt(val, oldfrom), oldrange)
        newrange == newto - newfrom
    IN  IF newrange >= 0 THEN FAddInt(FMulInt(relval, newrange), newfrom)
        ELSE IntSubF(newfrom, FMulInt(relval, 0 - newrange))

\* relindex of main.py 145 and 153
RelIndex(classnum, classes, valuestops) ==
    lerp(FromInt(classnum), 0, classes - 1, 0, Len(valuestops) - 1)

\* _interpfunc for single values (main.py 152-157)
interp_scalar(classnum, classes, valuestops) ==
    LET relindex == RelIndex(classnum, classes, valuestops)
        fromval  == valuestops[Floor(relindex) + 1]
        toval    == valuestops[Ceil(relindex) + 1]
    IN  [iter |-> FALSE, tup |-> <<>>,
         num |-> lerp(relindex, Floor(relindex), Floor(FAddInt(relindex, 1)),
                      fromval.num, toval.num)]

\* _interpfunc for sequences (main.py 144-150)
interp_tuple(classnum, classes, valuestops) ==
    LET relindex == RelIndex(classnum, classes, valuestops)
        fromval  == valuestops[Floor(relindex) + 1]
        toval    == valuestops[Ceil(relindex) + 1]
    IN  [iter |-> TRUE, num |-> FromInt(0),
         tup |-> [j \in 1..Len(fromval.tup) |->
                    lerp(relindex, Floor(relindex), Floor(FAddInt(relindex, 1)),
                         fromval.tup[j], toval.tup[j])]]

\* The value stops the single-value _interpfunc reads for classnum: a
\* sequence among them makes its subtraction raise TypeError.
ReadsSequence(classnum, classes, valuestops) ==
    LET relindex == RelIndex(classnum, classes, valuestops)
    IN  \/ valuestops[Floor(relindex) + 1].iter
        \/ valuestops[Ceil(relindex) + 1].iter

Returned(values) == [raised |-> "", values |-> values]

\* `classes <= 1` of main.py 125
SpecialCase(classes) == classes <= 1

TooFewStopsOffByOne(valuestops) == Len(valuestops) < 1

\* `len(valuestops) < 2` of main.py 128
TooFewStops(valuestops) == Len(valuestops) < 2

ClassRangeOneShort(classes) == 1..(classes - 1)

\* range(classes) of main.py 161, as the positions of the returned list
ClassRange(classes) == 1..classes

Raises(exc) == [raised |-> exc, values |-> <<>>]

class_values(classes, valuestops) ==
    IF SpecialCase(classes)
    THEN IF valuestops = <<>> THEN Raises("IndexError")
         ELSE Returned(<<StopValue(valuestops[1])>>)
    ELSE IF TooFewStops(valuestops) THEN Raises("Exception")
    ELSE IF \A i \in 1..Len(valuestops) : valuestops[i].iter
    THEN IF \E i \in 1..Len(valuestops) :
                Len(valuestops[i].tup) # Len(valuestops[1].tup)
         THEN Raises("Exception")
         ELSE Returned([c \in ClassRange(classes) |->
                          interp_tuple(c - 1, classes, valuestops)])
    ELSE IF \E c \in ClassRange(classes) : ReadsSequence(c - 1, classes, valuestops)
         THEN Raises("TypeError")
         ELSE Returned([c \in ClassRange(classes) |->
                          interp_scalar(c - 1, classes, valuestops)])


(***************************************************************************)
(* Specification of class_values calls: every class count up to            *)
(* MaxStopClasses with each list of StopLists, and every class count up to *)
(* MaxClasses with as many evenly spaced stops as classes.                 *)
(***************************************************************************)
MaxClasses == 50

MaxStopClasses == 5

Ramp(k) == [i \in 1..k |-> Scalar(10 * (i - 1))]

StopLists ==
    { <<>>,
      <<Scalar(0)>>,
      <<Scalar(0), Scalar(10)>>,
      <<Scalar(255), Scalar(0)>>,
      <<Scalar(0), Scalar(10), Scalar(40)>>,
      <<Tuple(<<0, 0, 0>>)>>,
      <<Tuple(<<0, 0, 0>>), Tuple(<<255, 255, 255>>)>>,
      <<Tuple(<<255, 0>>), Tuple(<<0, 255>>), Tuple(<<0, 0>>)>>,
      <<Tuple(<<0, 0>>), Tuple(<<255>>)>>,
      <<Scalar(0), Tuple(<<0, 0>>)>> }

CVCalls ==
    { [fn |-> "class_values", classes |-> n, valuestops |-> st] :
        n \in 0..MaxStopClasses, st \in StopLists }
    \cup { [fn |-> "class_values", classes |-> n, valuestops |-> Ramp(n)] :
             n \in 2..MaxClasses }

InitCV == call \in CVCalls /\ ret = Pending /\ self = NoObject

ClassValues ==
    /\ call.fn = "class_values"
    /\ ret = Pending
    /\ ret' = class_values(call.classes, call.valuestops)
    /\ UNCHANGED <<call, self>>

NextCV == ClassValues

SpecCV == InitCV /\ [][NextCV]_vars


CVDone == call.fn = "class_values" /\ ret # Pending

AllScalars(stops) == \A i \in 1..Len(stops) : ~stops[i].iter

AllTuples(stops) == \A i \in 1..Len(stops) : stops[i].iter

EqualArity(stops) ==
    \A i \in 1..Len(stops) : Len(stops[i].tup) = Len(stops[1].tup)

\* value stops class_values is meant for: at least two, all numbers or all
\* sequences of one length
ValidStops(stops) ==
    Len(stops) >= 2 /\ (AllScalars(stops) \/ (AllTuples(stops) /\ EqualArity(stops)))

\* x as a whole number of 1/4096ths, rounded down
Fixed12(x) ==
    x.int * 4096
    + LET f == [i \in 1..12 |-> IF i <= Len(x.frac) THEN x.frac[i] ELSE 0]
      IN  f[1] * 2048 + f[2] * 1024 + f[3] * 512 + f[4] * 256 + f[5] * 128
          + f[6] * 64 + f[7] * 32 + f[8] * 16 + f[9] * 8 + f[10] * 4
          + f[11] * 2 + f[12]

\* the float x is within 1/1000 of the fraction num / den
Near(x, num, den) ==
    LET diff == Fixed12(x) * den - 4096 * num
    IN  -5 * den <= diff /\ diff <= 4 * den

\* The linear interpolation of the claim, between the numbers lo and hi of
\* the stops around r = c*(k-1)/(n-1), as a fraction over n - 1.
InterpNum(c, n, k, lo, hi) ==
    (n - 1) * lo + (hi - lo) * ((c * (k - 1)) % (n - 1))

LowStop(c, n, k) == (c * (k - 1)) \div (n - 1) + 1

HighStop(c, n, k) ==
    IF (c * (k - 1)) % (n - 1) = 0 THEN LowStop(c, n, k) ELSE LowStop(c, n, k) + 1

\* C8: for n >= 2 and k >= 2 stops, all numbers or all sequences of one
\* length, class_values(n, stops)[c] is (to within 1/1000) the linear
\* interpolation between stops[floor(r)] and stops[ceil(r)] at the fractional
\* part of r = c*(k-1)/(n-1), per coordinate for sequences; so the result at
\* an integer r is stops[r], and n == k returns the stops themselves.
C8_LinearInterpolation ==
    (CVDone /\ call.classes >= 2 /\ ValidStops(call.valuestops))
    => /\ ret.raised = ""
       /\ Len(ret.values) = call.classes
       /\ \A c \in 0..(call.classes - 1) :
            LET n  == call.classes
                k  == Len(call.valuestops)
                lo == call.valuestops[LowStop(c, n, k)]
                hi == call.valuestops[HighStop(c, n, k)]
                v  == ret.values[c + 1]
            IN  IF AllScalars(call.valuestops)
                THEN ~v.iter /\ Near(v.num, InterpNum(c, n, k, lo.num, hi.num), n - 1)
                ELSE /\ v.iter
                     /\ Len(v.tup) = Len(lo.tup)
                     /\ \A j \in 1..Len(lo.tup) :
                           Near(v.tup[j], InterpNum(c, n, k, lo.tup[j], hi.tup[j]), n - 1)

\* C9 as stated: class_values raises, returning nothing, whenever
\* classes > 1 and fewer than 2 stops are given and whenever the stops are
\* sequences of unequal length; it raises nothing for classes > 1 with valid
\* stops; and for classes <= 1 with at least one stop it returns exactly
\* [valuestops[0]].
C9_ErrorsAsStated ==
    CVDone
    => /\ (call.classes > 1 /\ Len(call.valuestops) < 2)
             => (ret.raised # "" /\ ret.values = <<>>)
       /\ (AllTuples(call.valuestops) /\ ~EqualArity(call.valuestops))
             => (ret.raised # "" /\ ret.values = <<>>)
       /\ (call.classes > 1 /\ ValidStops(call.valuestops)) => ret.raised = ""
       /\ (call.classes <= 1 /\ Len(call.valuestops) >= 1)
             => ret = Returned(<<StopValue(call.valuestops[1])>>)

\* C9, amended: class_values raises, returning nothing, whenever classes > 1
\* and either fewer than 2 stops are given or the stops are sequences of
\* unequal length; it raises nothing for classes > 1 with valid stops; and
\* for classes <= 1 with at least one stop (of any shape) it returns exactly
\* [valuestops[0]].
C9_Errors ==
    CVDone
    => /\ (call.classes > 1 /\ Len(call.valuestops) < 2)
             => (ret.raised # "" /\ ret.values = <<>>)
       /\ (call.classes > 1 /\ AllTuples(call.valuestops)
               /\ ~EqualArity(call.valuestops))
             => (ret.raised # "" /\ ret.values = <<>>)
       /\ (call.classes > 1 /\ ValidStops(call.valuestops)) => ret.raised = ""
       /\ (call.classes <= 1 /\ Len(call.valuestops) >= 1)
             => ret = Returned(<<StopValue(call.valuestops[1])>>)

\* class_values has raised on sequences of unequal length for classes > 1
C9_Witness ==
    /\ CVDone
    /\ call.classes > 1
    /\ Len(call.valuestops) >= 2
    /\ AllTuples(call.valuestops) /\ ~EqualArity(call.valuestops)
    /\ ret.raised = "Exception"


(***************************************************************************)
(* Classifier (main.py 9-87), built on custom breakpoints.  The object is  *)
(* the record `self`; kwargs holds the exclude / minval / maxval handed    *)
(* on to split.                                                            *)
(***************************************************************************)
\* Classifier.update (main.py 38-51) for algo "custom": the new
\* classvalues_interp, or what class_values raised
update(obj) == class_values(Len(obj.breaks) - 1, obj.classvalues)

\* Classifier.__init__ (main.py 11-29), update() included
NewClassifier(c) ==
    LET obj == [kind |-> "Classifier", items |-> c.items, algo |-> "custom",
                breaks |-> c.breaks, classvalues |-> c.classvalues,
                kwargs |-> c.kwargs, classvalues_interp |-> <<>>]
    IN  [obj EXCEPT !.classvalues_interp = update(obj).values]

\* (valrange[0] + valrange[1]) / 2.0 (main.py 78)
Midpoint(range) == (range[1] + range[2]) \div 2

\* The (item, classval) pairs one bucket of split gives (main.py 78-84);
\* none when find_class misses the midpoint.
YieldsOf(obj, group) ==
    LET classinfo == find_class(Midpoint(group.range), obj.breaks)
    IN  IF classinfo.kind # "class" THEN <<>>
        ELSE [j \in 1..Len(group.members) |->
                [item |-> group.members[j],
                 classval |-> obj.classvalues_interp[classinfo.classnum]]]

RECURSIVE YieldsFrom(_, _, _)
YieldsFrom(obj, groups, g) ==
    IF g > Len(groups) THEN <<>>
    ELSE YieldsOf(obj, groups[g]) \o YieldsFrom(obj, groups, g + 1)

\* Classifier.__iter__ (main.py 53-84), consumed to its end
iterate(obj) ==
    LET sp == split(obj.items, obj.breaks, obj.kwargs.exclude,
                    obj.kwargs.minval, obj.kwargs.maxval)
    IN  [raised |-> sp.raised, yielded |-> YieldsFrom(obj, sp.groups, 1)]

(***************************************************************************)
(* Specification of Classifier objects, together with the class_values     *)
(* calls: the constructor, update() and one iteration.                     *)
(***************************************************************************)
MaxClassifierItems == 2

ClassifierItemVals == {8, 16, 32, 48, Inf}

ClassifierItems ==
    UNION { { [i \in 1..n |-> [id |-> i, val |-> f[i]]] :
                f \in [1..n -> ClassifierItemVals] } : n \in 0..MaxClassifierItems }

ClassifierStops ==
    { <<Scalar(0)>>,
      <<Scalar(0), Scalar(10)>>,
      <<Scalar(10), Scalar(20), Scalar(30)>>,
      <<Tuple(<<0, 0, 0>>), Tuple(<<255, 255, 255>>)>> }

ClassifierCalls ==
    { [fn |-> "Classifier", items |-> its, breaks |-> b, classvalues |-> st,
       kwargs |-> flt] :
        its \in ClassifierItems, b \in SplitBreaks \cup {<<16>>},
        st \in ClassifierStops,
        flt \in { [exclude |-> {}, minval |-> <<>>, maxval |-> <<>>],
                  [exclude |-> {32}, minval |-> <<>>, maxval |-> <<>>] } }

InitClassifier == call \in ClassifierCalls /\ ret = Pending /\ self = NoObject

InitValues == InitCV \/ InitClassifier

Construct ==
    /\ call.fn = "Classifier"
    /\ self = NoObject
    /\ ret = Pending
    /\ LET obj == [kind |-> "Classifier", breaks |-> call.breaks,
                   classvalues |-> call.classvalues]
       IN  IF update(obj).raised # ""
           THEN ret' = update(obj) /\ self' = self
           ELSE self' = NewClassifier(call) /\ ret' = ret
    /\ UNCHANGED call

Update ==
    /\ self # NoObject
    /\ self' = [self EXCEPT !.classvalues_interp = update(self).values]
    /\ UNCHANGED <<call, ret>>

Iterate ==
    /\ self # NoObject
    /\ ret = Pending
    /\ ret' = iterate(self)
    /\ UNCHANGED <<call, self>>

NextClassifier == Construct \/ Update \/ Iterate

SpecClassifier == InitClassifier /\ [][NextClassifier]_vars

NextValues == ClassValues \/ Construct \/ Update \/ Iterate

SpecValues == InitValues /\ [][NextValues]_vars

\* C7 as stated: class_values(n, stops) returns exactly n values for every
\* n >= 0 and valid stops, and the classvalues_interp of a Classifier has
\* len(breaks) - 1 values, also for a breakpoint sequence of length 1 or 2.
C7_CountAsStated ==
    /\ (CVDone /\ ValidStops(call.valuestops))
          => (ret.raised = "" /\ Len(ret.values) = call.classes)
    /\ self # NoObject
          => Len(self.classvalues_interp) = Len(self.breaks) - 1

\* C7, amended: class_values(n, stops) returns exactly n values for every
\* n >= 1 and valid stops, and exactly one value for n = 0; the
\* classvalues_interp of a Classifier has len(breaks) - 1 values for every
\* breakpoint sequence of length >= 2, and one value for a sequence of
\* length 1.
C7_Count ==
    /\ (CVDone /\ ValidStops(call.valuestops))
          => /\ ret.raised = ""
             /\ Len(ret.values) = IF call.classes >= 1 THEN call.classes ELSE 1
    /\ self # NoObject
          => Len(self.classvalues_interp)
               = IF Len(self.breaks) >= 2 THEN Len(self.breaks) - 1 ELSE 1

\* a Classifier on four breakpoints holds three interpolated class values
C7_Witness ==
    /\ self # NoObject
    /\ Len(self.breaks) = 4
    /\ Len(self.classvalues) = 2
    /\ Len(self.classvalues_interp) = 3

IterDone == call.fn = "Classifier" /\ self # NoObject /\ ret # Pending

\* C10: when a Classifier on non-decreasing custom breakpoints (whose
\* numbers all print exactly, and are finite) is iterated, every item that
\* split places in the class with 1-based index k is yielded paired with
\* classvalues_interp[k-1], degenerate classes included, and no item grouped
\* by split is dropped.
C10_ClassValueOfSplitClass ==
    (/\ IterDone
     /\ \A i \in 1..Len(self.items) : PrintsExactly(self.items[i].val)
     /\ \A i \in 1..Len(self.breaks) : PrintsExactly(self.breaks[i]))
    => LET sp == split(self.items, self.breaks, self.kwargs.exclude,
                       self.kwargs.minval, self.kwargs.maxval)
       IN  \A g \in 1..Len(sp.groups) :
              \A j \in 1..Len(sp.groups[g].members) :
                 LET m == sp.groups[g].members[j]
                     k == split_find_class(m, self.breaks).classnum
                 IN  \E y \in 1..Len(ret.yielded) :
                        /\ ret.yielded[y].item = m
                        /\ ret.yielded[y].classval = self.classvalues_interp[k]


(***************************************************************************)
(* breaks(items, algorithm, key, extrabreaks, exclude, minval, maxval),    *)
(* main.py 167-216.  The algorithm is a function of the module _breaks;    *)
(* of what it returns only its contract is used: a non-decreasing          *)
(* sequence from min(values) to max(values).                               *)
(***************************************************************************)
MaxExtra == 2

AlgoVals == {16, 24, 32, 40, 48}

ExtraVals == {8, 16, 20, 24, 32, 48, 64}

\* keywrap of the sorted items (main.py 193)
ValuesOf(items) == [i \in 1..Len(items) |-> items[i].val]

\* func(values, **kwargs) (main.py 196-197)
AlgorithmBreaks(values) ==
    { b \in NonDecreasingSeqs(AlgoVals, 2, MaxBreaks) :
        b[1] = values[1] /\ b[Len(b)] = values[Len(values)] }

\* The loop of main.py 206-214 from the pair (oldbreaks[p], oldbreaks[p+1])
\* on; its counter i is p - 1, and breaks.insert(i, val) puts val before the
\* element at 0-based position i.
RECURSIVE InsertFrom(_, _, _)
InsertFrom(oldbreaks, val, p) ==
    IF p >= Len(oldbreaks) THEN oldbreaks
    ELSE IF oldbreaks[p] <= val /\ val < oldbreaks[p + 1]
         THEN SubSeq(oldbreaks, 1, p - 1) \o <<val>>
              \o SubSeq(oldbreaks, p, Len(oldbreaks))
    ELSE InsertFrom(oldbreaks, val, p + 1)

\* main.py 200-214: the extra breaks, one after the other
RECURSIVE InsertExtras(_, _)
InsertExtras(brks, extrabreaks) ==
    IF extrabreaks = <<>> THEN brks
    ELSE InsertExtras(InsertFrom(brks, extrabreaks[1], 1), Tail(extrabreaks))

BreaksItemLists ==
    { <<[id |-> 1, val |-> 16], [id |-> 2, val |-> 48]>>,
      <<[id |-> 1, val |-> 48], [id |-> 2, val |-> 16], [id |-> 3, val |-> 32]>>,
      <<[id |-> 1, val |-> 32], [id |-> 2, val |-> NotANumber], [id |-> 3, val |-> 32]>>,
      <<[id |-> 1, val |-> 64], [id |-> 2, val |-> 16], [id |-> 3, val |-> 48]>> }

BreaksCalls ==
    { [fn |-> "breaks", items |-> its, extrabreaks |-> ex,
       exclude |-> {}, minval |-> <<>>, maxval |-> <<48>>] :
        its \in BreaksItemLists,
        ex \in UNION { [1..n -> ExtraVals] : n \in 0..MaxExtra } }

InitBreaks == call \in BreaksCalls /\ ret = Pending /\ self = NoObject

Breaks ==
    /\ call.fn = "breaks"
    /\ ret = Pending
    /\ LET values == ValuesOf(Prepare(call.items, call.exclude,
                                      call.minval, call.maxval))
       IN  \E b \in AlgorithmBreaks(values) :
              ret' = [values |-> values, algo |-> b,
                      breaks |-> InsertExtras(b, call.extrabreaks)]
    /\ UNCHANGED <<call, self>>

NextBreaks == Breaks

SpecBreaks == InitBreaks /\ [][NextBreaks]_vars

BreaksDone == call.fn = "breaks" /\ ret # Pending

Count(seq, v) == Cardinality({ i \in 1..Len(seq) : seq[i] = v })

\* the extra breaks that lie in [B[0], B[-1])
InRange(extrabreaks, B) ==
    SelectSeq(extrabreaks, LAMBDA e : B[1] <= e /\ e < B[Len(B)])

\* C6: breaks(..., extrabreaks=E) returns the algorithm's sequence B with
\* each extra value e, B[0] <= e < B[-1], inserted at its sorted position:
\* the result is non-decreasing, starts at min(values), ends at max(values),
\* is one longer per inserted value, and holds no extra value from outside
\* the range.
C6_ExtraBreaksInserted ==
    BreaksDone
    => /\ IsNonDecreasing(ret.breaks)
       /\ ret.breaks[1] = ret.values[1]
       /\ ret.breaks[Len(ret.breaks)] = ret.values[Len(ret.values)]
       /\ Len(ret.breaks) = Len(ret.algo) + Len(InRange(call.extrabreaks, ret.algo))
       /\ \A v \in AlgoVals \cup ExtraVals :
             Count(ret.breaks, v)
               = Count(ret.algo, v) + Count(InRange(call.extrabreaks, ret.algo), v)

=============================================================================
